---- MODULE Spec2Model ----
(***************************************************************************)
(* Model of wifiphisher/common/extensions.py: the ExtensionManager, its    *)
(* listening thread (_listen / _process_packet), its sending thread        *)
(* (_send) and the controller calls init_extensions, start_extensions,     *)
(* get_output and on_exit.                                                 *)
(***************************************************************************)
EXTENDS Integers, Sequences, FiniteSets, TLC

\* ---------------------------------------------------------------- bounds
MaxExt == 2        \* longest constants.EXTENSIONS list explored
MaxFrames == 2     \* frames the interface yields while running
MaxQueue == 3      \* longest _packets_to_send explored
MaxLines == 2      \* longest list one send_output call returns
MaxResult == 2     \* longest list one get_packet call returns
MaxExitCalls == 2  \* calls of on_exit explored

\* ------------------------------------------------------------ environment
\* Identifiers constants.EXTENSIONS may hold, with what resolving and
\* constructing each one does (lines 89-91).
Identifiers == {"x", "y", "z"}

Resolve(extension) ==
    CASE extension = "y" -> "ImportError"     \* import_module / getattr raises
      [] extension = "z" -> "InitError"       \* ExtensionClass(shared_data) raises
      [] OTHER -> "ok"

\* All sequences over S of length at most n.
SeqsUpTo(S, n) == UNION {[1..m -> S] : m \in 0..n}

\* Python values returned by an extension call: None, a list, or an exception.
None == [kind |-> "none", val |-> <<>>]
Raise == [kind |-> "raise", val |-> <<>>]
List(s) == [kind |-> "list", val |-> s]

\* `if x and len(x) > 0` (lines 142, 161)
Truthy(x) == x.kind = "list" /\ Len(x.val) > 0

\* An exception of the given kind raised about `what`, with the value the
\* shutdown flag had when it was raised.
Error(kind, what, flag) == [kind |-> kind, what |-> what, clear |-> flag]
NoError == Error("none", "", TRUE)

\* Frames extension e may return for the captured frame f: fresh objects.
Crafted(f, e, n) == [k \in 1..n |-> <<f, e, k>>]

VARIABLES
    EXTENSIONS,        \* constants.EXTENSIONS
    extensions,        \* self._extensions: identifiers of the constructed objects
    loadError,         \* exception init_extensions raised ("none" if none)
    should_continue,   \* self._should_continue
    packets_to_send,   \* self._packets_to_send
    phase,             \* controller progress: "new", "loaded", "started"
    lpc,               \* listen_thread position
    ext_i,             \* index of `for extension in self._extensions` (line 159)
    captured,          \* frames sniff has handed to prn so far
    returned,          \* frames the get_packet calls have returned so far
    lerr,              \* exception that reached the except of _listen
    spc,               \* send_thread position
    pkt_k,             \* index of `for pkt in self._packets_to_send` (line 214)
    offered,           \* frames passed to self._socket.send
    serr,              \* exception that reached the except of _send
    closed,            \* calls of self._socket.close
    cpc,               \* controller position inside on_exit
    exitCalls,         \* completed or running on_exit calls
    exitResult,        \* what on_exit returned to the caller
    aliveAtReturn,     \* threads alive when on_exit returned
    atStop,            \* frames captured and queue length when the flag was cleared
    sendsAfterStop,    \* send calls started after the flag was cleared
    output,            \* what the last get_output returned
    m_outputs,         \* what each send_output returned in the last get_output
    reported           \* errors logged / reported by the manager

vars == <<EXTENSIONS, extensions, loadError, should_continue, packets_to_send,
          phase, lpc, ext_i, captured, returned, lerr, spc, pkt_k, offered,
          serr, closed, cpc, exitCalls, exitResult, aliveAtReturn, atStop,
          sendsAfterStop, output, m_outputs, reported>>

listenVars == <<lpc, ext_i, captured, returned, lerr>>
sendVars == <<spc, pkt_k, offered, serr, closed, sendsAfterStop>>
loadVars == <<EXTENSIONS, extensions, loadError>>
exitVars == <<cpc, exitCalls, exitResult, aliveAtReturn, atStop>>
outVars == <<output, m_outputs>>

\* ------------------------------------------------------------- __init__
Init ==
    /\ EXTENSIONS \in SeqsUpTo(Identifiers, MaxExt)
    /\ extensions = <<>>
    /\ loadError = NoError
    /\ should_continue = TRUE
    /\ packets_to_send = <<>>
    /\ phase = "new"
    /\ lpc = "new"
    /\ ext_i = 0
    /\ captured = 0
    /\ returned = {}
    /\ lerr = NoError
    /\ spc = "new"
    /\ pkt_k = 0
    /\ offered = {}
    /\ serr = NoError
    /\ closed = 0
    /\ cpc = "idle"
    /\ exitCalls = 0
    /\ exitResult = {}
    /\ aliveAtReturn = {}
    /\ atStop = [captured |-> 0, queued |-> 0]
    /\ sendsAfterStop = 0
    /\ output = None
    /\ m_outputs = <<>>
    /\ reported = {}

\* ------------------------------------------------------ init_extensions
\* The for loop of lines 88-92 from index i on: every constructed object is
\* appended at once; an exception leaves the loop with what was appended.
RECURSIVE LoadFrom(_, _, _)
LoadFrom(names, reg, i) ==
    IF i > Len(names) THEN [reg |-> reg, err |-> NoError]
    ELSE IF Resolve(names[i]) # "ok"
         THEN [reg |-> reg, err |-> Error(Resolve(names[i]), names[i], TRUE)]
         ELSE LoadFrom(names, Append(reg, names[i]), i + 1)

InitExtensions ==
    /\ phase = "new"
    /\ cpc = "idle"
    /\ LET r == LoadFrom(EXTENSIONS, extensions, 1) IN
        /\ extensions' = r.reg
        /\ loadError' = r.err
    /\ phase' = "loaded"
    /\ UNCHANGED <<EXTENSIONS, should_continue, packets_to_send, listenVars,
                   sendVars, exitVars, outVars, reported>>

\* ----------------------------------------------------- start_extensions
StartExtensions ==
    /\ phase = "loaded"
    /\ cpc = "idle"
    /\ phase' = "started"
    /\ lpc' = "loop"
    /\ spc' = "outer"
    /\ UNCHANGED <<loadVars, should_continue, packets_to_send, ext_i, captured,
                   returned, lerr, pkt_k, offered, serr, closed,
                   sendsAfterStop, exitVars, outVars, reported>>

\* -------------------------------------------------------------- _listen
\* except: if not self._should_continue: pass   (lines 195-197, 220-222)
\* Neither branch logs or re-raises: the set of reported errors is returned
\* as it was.
ExceptHandler(rep, err) == IF ~should_continue THEN rep ELSE rep

\* Line 190 as `while True:`.
ListenLoop_Unchecked ==
    /\ lpc = "loop"
    /\ lpc' = "sniff"
    /\ UNCHANGED <<loadVars, should_continue, packets_to_send, phase, ext_i,
                   captured, returned, lerr, sendVars, exitVars, outVars,
                   reported>>

\* while self._should_continue:   (line 190)
ListenLoop ==
    /\ lpc = "loop"
    /\ lpc' = IF should_continue THEN "sniff" ELSE "done"
    /\ UNCHANGED <<loadVars, should_continue, packets_to_send, phase, ext_i,
                   captured, returned, lerr, sendVars, exitVars, outVars,
                   reported>>

\* dot11.sniff(count=1, prn=...) receives a frame and calls prn on it.
\* Frames stop arriving after MaxFrames, except that a blocked capture is
\* released by one more frame once shutdown has been requested.
Sniff ==
    /\ lpc = "sniff"
    /\ captured < MaxFrames \/ ~should_continue
    /\ captured' = captured + 1
    /\ ext_i' = 1
    /\ lpc' = "process"
    /\ UNCHANGED <<loadVars, should_continue, packets_to_send, phase, returned,
                   lerr, sendVars, exitVars, outVars, reported>>

\* dot11.sniff raises (interface down): caught by the except of line 195.
SniffRaise ==
    /\ lpc = "sniff"
    /\ lerr' = Error("capture", "sniff", should_continue)
    /\ reported' = ExceptHandler(reported, lerr')
    /\ lpc' = "done"
    /\ UNCHANGED <<loadVars, should_continue, packets_to_send, phase, ext_i,
                   captured, returned, sendVars, exitVars, outVars>>

\* What get_packet of extension e may do with frame f.
GetPacketResults(f, e) ==
    {None, Raise} \cup
    {List(Crafted(f, e, n)) : n \in {m \in 0..MaxResult :
                                      Len(packets_to_send) + m <= MaxQueue}}

\* Line 162 putting the new frames in front of the queue.
Extend_Prepend(queue, received_packets) == received_packets \o queue

\* Line 162 queueing the captured frame instead of the crafted ones.
Extend_Captured(queue, received_packets) == Append(queue, <<captured, 0, 0>>)

\* self._packets_to_send += received_packets   (line 162)
Extend(queue, received_packets) == queue \o received_packets

\* One iteration of the for loop of _process_packet (lines 159-162).
ProcessPacket ==
    /\ lpc = "process"
    /\ ext_i <= Len(extensions)
    /\ \E r \in GetPacketResults(captured, ext_i) :
        /\ returned' = returned \cup {r.val[k] : k \in 1..Len(r.val)}
        /\ IF r = Raise
           THEN /\ lerr' = Error("get_packet", extensions[ext_i], should_continue)
                /\ reported' = ExceptHandler(reported, lerr')
                /\ lpc' = "done"
                /\ ext_i' = 0
                /\ UNCHANGED packets_to_send
           ELSE /\ packets_to_send' = IF Truthy(r)
                                      THEN Extend(packets_to_send, r.val)
                                      ELSE packets_to_send
                /\ ext_i' = ext_i + 1
                /\ UNCHANGED <<lerr, reported, lpc>>
    /\ UNCHANGED <<loadVars, should_continue, phase, captured, sendVars,
                   exitVars, outVars>>

\* The for loop is exhausted (its index is dropped): prn returns, count=1 is reached, sniff returns.
ProcessDone ==
    /\ lpc = "process"
    /\ ext_i > Len(extensions)
    /\ lpc' = "loop"
    /\ ext_i' = 0
    /\ UNCHANGED <<loadVars, should_continue, packets_to_send, phase,
                   captured, returned, lerr, sendVars, exitVars, outVars,
                   reported>>

\* ---------------------------------------------------------------- _send
\* `import time` is missing from the module imports (lines 5-10), so the
\* name `time` of line 216 is unbound.
TimeImported == FALSE

\* Line 211 as `while True:`.
SendOuter_Unchecked ==
    /\ spc = "outer"
    /\ spc' = "len"
    /\ UNCHANGED <<loadVars, should_continue, packets_to_send, phase,
                   listenVars, pkt_k, offered, serr, closed, sendsAfterStop,
                   exitVars, outVars, reported>>

\* while self._should_continue:   (line 211)
SendOuter ==
    /\ spc = "outer"
    /\ spc' = IF should_continue THEN "len" ELSE "sleep"
    /\ UNCHANGED <<loadVars, should_continue, packets_to_send, phase,
                   listenVars, pkt_k, offered, serr, closed, sendsAfterStop,
                   exitVars, outVars, reported>>

\* if len(self._packets_to_send) > 0:   (line 212)
SendLen ==
    /\ spc = "len"
    /\ spc' = IF Len(packets_to_send) > 0 THEN "inner" ELSE "outer"
    /\ UNCHANGED <<loadVars, should_continue, packets_to_send, phase,
                   listenVars, pkt_k, offered, serr, closed, sendsAfterStop,
                   exitVars, outVars, reported>>

\* while self._should_continue:   (line 213); entering the body creates the
\* list iterator of line 214 at index 0.
SendInner ==
    /\ spc = "inner"
    /\ IF should_continue
       THEN spc' = "for" /\ pkt_k' = 1
       ELSE spc' = "outer" /\ UNCHANGED pkt_k
    /\ UNCHANGED <<loadVars, should_continue, packets_to_send, phase,
                   listenVars, offered, serr, closed, sendsAfterStop, exitVars,
                   outVars, reported>>

\* for pkt in self._packets_to_send: self._socket.send(pkt)  (lines 214-215)
\* The list iterator compares its index with the current length each time;
\* it is dropped when the loop is left.
SendPkt ==
    /\ spc = "for"
    /\ IF pkt_k <= Len(packets_to_send)
       THEN /\ offered' = offered \cup {packets_to_send[pkt_k]}
            /\ sendsAfterStop' = IF should_continue THEN sendsAfterStop
                                  ELSE sendsAfterStop + 1
            /\ \E ok \in BOOLEAN :
                IF ok
                THEN /\ pkt_k' = pkt_k + 1
                     /\ UNCHANGED <<spc, serr, reported>>
                ELSE /\ serr' = Error("send", "socket", should_continue)
                     /\ reported' = ExceptHandler(reported, serr')
                     /\ spc' = "done"
                     /\ pkt_k' = 0
       ELSE /\ spc' = "inner"
            /\ pkt_k' = 0
            /\ UNCHANGED <<offered, sendsAfterStop, serr, reported>>
    /\ UNCHANGED <<loadVars, should_continue, packets_to_send, phase,
                   listenVars, closed, exitVars, outVars>>

\* time.sleep(1); self._socket.close()   (lines 216-218) and the except.
SendSleep ==
    /\ spc = "sleep"
    /\ IF TimeImported
       THEN /\ closed' = closed + 1
            /\ UNCHANGED <<serr, reported>>
       ELSE /\ serr' = Error("NameError", "time", should_continue)
            /\ reported' = ExceptHandler(reported, serr')
            /\ UNCHANGED closed
    /\ spc' = "done"
    /\ UNCHANGED <<loadVars, should_continue, packets_to_send, phase,
                   listenVars, pkt_k, offered, sendsAfterStop, exitVars,
                   outVars>>

\* -------------------------------------------------------------- on_exit
Alive == {t \in {"listen", "send"} :
            \/ t = "listen" /\ lpc \notin {"new", "done"}
            \/ t = "send" /\ spc \notin {"new", "done"}}

\* Line 124 flipping the flag instead of clearing it.
OnExit_Toggle ==
    /\ phase = "started"
    /\ cpc = "idle"
    /\ exitCalls < MaxExitCalls
    /\ should_continue' = ~should_continue
    /\ exitCalls' = exitCalls + 1
    /\ cpc' = "join_listen"
    /\ atStop' = IF should_continue
                 THEN [captured |-> captured, queued |-> Len(packets_to_send)]
                 ELSE atStop
    /\ exitResult' = {}
    /\ aliveAtReturn' = {}
    /\ UNCHANGED <<loadVars, packets_to_send, phase, listenVars, sendVars,
                   outVars, reported>>

\* on_exit also emptying the queue.
OnExit_ClearsQueue ==
    /\ phase = "started"
    /\ cpc = "idle"
    /\ exitCalls < MaxExitCalls
    /\ should_continue' = FALSE
    /\ packets_to_send' = <<>>
    /\ exitCalls' = exitCalls + 1
    /\ cpc' = "join_listen"
    /\ atStop' = IF should_continue
                 THEN [captured |-> captured, queued |-> Len(packets_to_send)]
                 ELSE atStop
    /\ exitResult' = {}
    /\ aliveAtReturn' = {}
    /\ UNCHANGED <<loadVars, phase, listenVars, sendVars, outVars, reported>>

\* self._should_continue = False   (line 124); the call has not returned
\* anything yet.
OnExit ==
    /\ phase = "started"
    /\ cpc = "idle"
    /\ exitCalls < MaxExitCalls
    /\ should_continue' = FALSE
    /\ exitCalls' = exitCalls + 1
    /\ cpc' = "join_listen"
    /\ atStop' = IF should_continue
                 THEN [captured |-> captured, queued |-> Len(packets_to_send)]
                 ELSE atStop
    /\ exitResult' = {}
    /\ aliveAtReturn' = {}
    /\ UNCHANGED <<loadVars, packets_to_send, phase, listenVars, sendVars,
                   outVars, reported>>

\* self.listen_thread.join(5): returns when the thread has ended or when
\* the five seconds have passed; the result is not looked at.
JoinListen ==
    /\ cpc = "join_listen"
    /\ \E timeout \in BOOLEAN : timeout \/ "listen" \notin Alive
    /\ cpc' = "join_send"
    /\ UNCHANGED <<loadVars, should_continue, packets_to_send, phase,
                   listenVars, sendVars, exitCalls, exitResult, aliveAtReturn,
                   atStop, outVars, reported>>

\* What on_exit hands back: there is no return statement, so no loop is named.
OnExitReturn(alive) == {}

\* self.send_thread.join(5), then on_exit returns.
JoinSend ==
    /\ cpc = "join_send"
    /\ \E timeout \in BOOLEAN : timeout \/ "send" \notin Alive
    /\ cpc' = "idle"
    /\ exitResult' = OnExitReturn(Alive)
    /\ aliveAtReturn' = Alive
    /\ UNCHANGED <<loadVars, should_continue, packets_to_send, phase,
                   listenVars, sendVars, exitCalls, atStop, outVars, reported>>

\* ----------------------------------------------------------- get_output
\* Log lines extension e may hand out.
Lines(e, n) == [k \in 1..n |-> <<e, k>>]
SendOutputResults(e) == {None, Raise} \cup {List(Lines(e, n)) : n \in 0..MaxLines}

\* The for loop of lines 140-143 from index i on, `outs[i]` being what
\* send_output of extension i does; out is `output`, asked the extensions
\* queried so far.
\* Line 143 putting the new lines in front of the output.
OutputAdd_Prepend(out, m_output) == m_output \o out

\* output += m_output   (line 143)
OutputAdd(out, m_output) == out \o m_output

RECURSIVE GetOutputFrom(_, _, _, _)
GetOutputFrom(outs, i, out, asked) ==
    IF i > Len(outs) THEN [ret |-> List(out), asked |-> asked]
    ELSE IF outs[i] = Raise THEN [ret |-> Raise, asked |-> Append(asked, i)]
    ELSE GetOutputFrom(outs, i + 1,
                       IF Truthy(outs[i]) THEN OutputAdd(out, outs[i].val) ELSE out,
                       Append(asked, i))

\* get_output with `output` aliasing the queue: output += m_output then
\* appends the log lines to self._packets_to_send.
GetOutput_Aliased ==
    /\ cpc = "idle"
    /\ \E outs \in [1..Len(extensions) -> UNION {SendOutputResults(e) : e \in 1..MaxExt + 1}] :
        /\ \A e \in 1..Len(extensions) : outs[e] \in SendOutputResults(e)
        /\ LET r == GetOutputFrom(outs, 1, <<>>, <<>>) IN
            /\ output' = r.ret
            /\ m_outputs' = [n \in 1..Len(r.asked) |-> [e |-> r.asked[n], r |-> outs[r.asked[n]]]]
            /\ packets_to_send' = packets_to_send \o r.ret.val
    /\ UNCHANGED <<loadVars, should_continue, phase, listenVars, sendVars,
                   exitVars, reported>>

GetOutput ==
    /\ cpc = "idle"
    /\ \E outs \in [1..Len(extensions) -> UNION {SendOutputResults(e) : e \in 1..MaxExt + 1}] :
        /\ \A e \in 1..Len(extensions) : outs[e] \in SendOutputResults(e)
        /\ LET r == GetOutputFrom(outs, 1, <<>>, <<>>) IN
            /\ output' = r.ret
            /\ m_outputs' = [n \in 1..Len(r.asked) |-> [e |-> r.asked[n], r |-> outs[r.asked[n]]]]
    /\ UNCHANGED <<loadVars, should_continue, packets_to_send, phase,
                   listenVars, sendVars, exitVars, reported>>

\* ------------------------------------------------------------ specification
Next ==
    \/ InitExtensions
    \/ StartExtensions
    \/ ListenLoop
    \/ Sniff
    \/ SniffRaise
    \/ ProcessPacket
    \/ ProcessDone
    \/ SendOuter
    \/ SendLen
    \/ SendInner
    \/ SendPkt
    \/ SendSleep
    \/ OnExit
    \/ JoinListen
    \/ JoinSend

Spec == Init /\ [][Next]_vars

\* The steps of the two threads.  A started thread keeps running; a capture
\* call returns with a frame whenever one can arrive.
ListenStep == ListenLoop \/ Sniff \/ ProcessPacket \/ ProcessDone
SendStep == SendOuter \/ SendLen \/ SendInner \/ SendPkt \/ SendSleep

FairSpec == Spec /\ WF_vars(ListenStep) /\ WF_vars(SendStep)

\* The controller alone: loading, starting, collecting output and leaving.
NextOutput ==
    \/ InitExtensions
    \/ StartExtensions
    \/ GetOutput
    \/ OnExit
    \/ JoinListen
    \/ JoinSend

SpecOutput == Init /\ [][NextOutput]_vars

\* Everything together, get_output interleaved with the two threads, for the
\* registries of at most one extension.
InitAll == Init /\ Len(EXTENSIONS) <= 1

NextAll == Next \/ GetOutput

SpecAll == InitAll /\ [][NextAll]_vars

\* ------------------------------------------------------------- properties
\* Capture order, then registry order, then result order, on crafted frames
\* and on log lines.
Before(a, b) ==
    \/ a[1] < b[1]
    \/ a[1] = b[1] /\ a[2] < b[2]
    \/ a[1] = b[1] /\ a[2] = b[2] /\ a[3] < b[3]

Elements(s) == {s[n] : n \in 1..Len(s)}

\* C1: the outbound queue holds exactly the frames the get_packet calls have
\* returned, each once, ordered by captured frame, then by extension in
\* registry order, then by position in the returned list.
C1_QueueIsConcatenation ==
    /\ \A m, n \in 1..Len(packets_to_send) :
        m < n => Before(packets_to_send[m], packets_to_send[n])
    /\ Elements(packets_to_send) = returned

C1_Witness ==
    /\ lerr = NoError
    /\ Len(packets_to_send) = MaxQueue
    /\ \E m, n \in 1..Len(packets_to_send) :
        /\ packets_to_send[m][1] < packets_to_send[n][1]
        /\ packets_to_send[m][2] > packets_to_send[n][2]
    /\ \E n \in 1..Len(packets_to_send) : packets_to_send[n][3] = 2

\* C2: a get_packet call that raises while the shutdown flag is clear does
\* not end the listening thread: no step taken while a frame is being
\* dispatched with the flag clear leaves the thread terminated.
C2_IngestFailureIsolated ==
    [][(lpc = "process" /\ should_continue) => lpc' # "done"]_vars

\* C3: once shutdown has been requested and the sending thread has ended,
\* the socket has been closed exactly once; it is never closed twice.
C3_ClosedExactlyOnce ==
    /\ closed <= 1
    /\ (~should_continue /\ spc = "done") => closed = 1

\* C4: after on_exit has cleared _should_continue, both threads end.
C4_BothLoopsTerminate ==
    ~should_continue ~> (lpc = "done" /\ spc = "done")

C4_Witness ==
    /\ ~should_continue
    /\ lpc = "done" /\ spc = "done"
    /\ lerr = NoError /\ serr.kind # "send"
    /\ packets_to_send # <<>>

\* C5: a send that fails while the shutdown flag is clear does not end the
\* sending thread: no step taken inside the for loop with the flag clear
\* leaves the thread terminated.
C5_SendFailureIsolated ==
    [][(spc = "for" /\ should_continue) => spc' # "done"]_vars

\* C6: every frame in the outbound queue is eventually passed to send,
\* unless shutdown is requested first.
AllCrafted == {<<f, e, k>> : f \in 1..MaxFrames + 1, e \in 1..MaxExt, k \in 1..MaxResult}

C6_AppendedIsOffered ==
    \A p \in AllCrafted :
        (p \in Elements(packets_to_send)) ~> (p \in offered \/ ~should_continue)

\* C7: a load that failed leaves no constructed extension in the registry.
C7_NoPartialRegistry ==
    loadError # NoError => extensions = <<>>

\* C8: a capture failure raised while the shutdown flag was clear is
\* reported.
C8_CaptureFailureSurfaced ==
    (lerr.kind = "capture" /\ lerr.clear) => lerr \in reported

\* What a get_output call that returned leaves behind: it has asked every
\* extension once, in registry order, and its result holds exactly the lines
\* they handed out, each once, ordered by extension and then by position in
\* the extension's own list.
OutputIsConcatenation ==
    output.kind = "list" =>
        /\ Len(m_outputs) = Len(extensions)
        /\ \A n \in 1..Len(m_outputs) : m_outputs[n].e = n
        /\ \A m, n \in 1..Len(output.val) :
            m < n => Before(<<0>> \o output.val[m], <<0>> \o output.val[n])
        /\ Elements(output.val) =
            UNION {Elements(m_outputs[n].r.val) : n \in 1..Len(m_outputs)}

\* C9: every get_output call returns the concatenation, in registry order,
\* of the non-empty send_output results, each extension asked exactly once.
C9_OutputIsConcatenation ==
    [][(output' # output \/ m_outputs' # m_outputs) => OutputIsConcatenation']_vars

C9_Witness ==
    /\ output.kind = "list"
    /\ Len(extensions) = MaxExt
    /\ Len(m_outputs) = MaxExt
    /\ m_outputs[1].r = List(Lines(1, MaxLines))
    /\ m_outputs[MaxExt].r = List(Lines(MaxExt, 1))
    /\ Len(output.val) >= MaxLines + 1

\* C10: what on_exit returns names exactly the threads still alive when its
\* waiting ended.
C10_JoinReportsAlive ==
    (exitCalls > 0 /\ cpc = "idle") => exitResult = aliveAtReturn

\* C11: the listening thread never changes the queue while the sending
\* thread is inside its for loop over it.
C11_QueueAccessExclusive ==
    [][packets_to_send' # packets_to_send => spc # "for"]_vars

\* C12: _should_continue changes only in the first step of on_exit, and only
\* from True to False; once False it stays False.
C12_FlagMonotonic ==
    [][should_continue' # should_continue =>
        (should_continue /\ ~should_continue' /\ cpc = "idle" /\ cpc' = "join_listen")]_vars

C12_Witness ==
    /\ ~should_continue
    /\ exitCalls >= 2 /\ cpc = "idle"
    /\ lpc = "done" /\ spc = "done"
    /\ serr.kind = "NameError"
    /\ lerr.kind = "capture"

C14_AtMostOneSendAfterStop ==
    sendsAfterStop <= 1

\* C15: after the flag has been cleared the listening thread captures at
\* most one more frame, and what it appends to the queue from then on comes
\* from a single captured frame.
C15_AtMostOneFrameAfterStop ==
    ~should_continue =>
        /\ captured <= atStop.captured + 1
        /\ \A m, n \in (atStop.queued + 1)..Len(packets_to_send) :
            packets_to_send[m][1] = packets_to_send[n][1]

C15_Witness ==
    /\ ~should_continue
    /\ lpc = "done"
    /\ captured = atStop.captured + 1
    /\ Len(packets_to_send) >= atStop.queued + 2
    /\ atStop.queued > 0

\* C16: a get_output call in which a send_output raises still asks every
\* extension and returns a list.
C16_OutputFailureIsolated ==
    [][(output' # output \/ m_outputs' # m_outputs) =>
        (output'.kind = "list" /\ Len(m_outputs') = Len(extensions))]_vars

\* C17: every step leaves the old queue as a prefix of the new one.
IsPrefix(a, b) == Len(a) <= Len(b) /\ SubSeq(b, 1, Len(a)) = a

C17_QueueOnlyGrows ==
    [][IsPrefix(packets_to_send, packets_to_send')]_vars

C17_Witness ==
    /\ Len(packets_to_send) >= 2
    /\ offered = Elements(packets_to_send)
    /\ output.kind = "list"
    /\ ~should_continue /\ cpc = "idle"

\* C18: every frame passed to send is in the queue and was returned by a
\* get_packet call; nothing is sent while the queue is empty.
C18_OnlyDispatchedFramesSent ==
    /\ offered \subseteq Elements(packets_to_send)
    /\ offered \subseteq returned

C18_Witness ==
    /\ Cardinality(offered) >= 2
    /\ offered = returned
    /\ should_continue

\* C19: a get_output call leaves the flag, the registry and the queue as
\* they were.
C19_GetOutputFrame ==
    [][(output' # output \/ m_outputs' # m_outputs) =>
        UNCHANGED <<should_continue, EXTENSIONS, extensions, packets_to_send>>]_vars

C19_Witness ==
    /\ output.kind = "list" /\ Len(output.val) > 0
    /\ lpc = "process" /\ spc = "for"
    /\ packets_to_send # <<>>
    /\ should_continue

====
